---- MODULE Spec2Model ----
(***************************************************************************)
(* deal-sniper (src/main.py): two RSS sources scraped behind a 300 s       *)
(* cache, titles parsed by one regular expression, deals filtered by the  *)
(* preferences of a POST /find-deals request.                              *)
(*                                                                         *)
(* Text is a sequence of one-character strings.  An Optional value is a    *)
(* sequence of length 0 (None) or 1 (the value), so that None, the empty   *)
(* text and 0 stay three different values, as they are in Python.          *)
(***************************************************************************)
EXTENDS Integers, Sequences, FiniteSets, TLC

VARIABLES
    now,            \* the wall clock read by time.time()
    cache,          \* the module-level cache dict: source -> entry
    pc,             \* per request: where its thread stands
    req_prefs,      \* per request: the UserPreferences of its body
    current_time,   \* per request: local current_time of the running scrape
    ret,            \* per request: what each scrape call of the request returned
    response,       \* per request: the response of find_deals (None until sent)
    served,         \* number of requests received so far
    work,           \* ghost: per request, its running (or last) scrape call: the fetch
                    \*        and parse_deal invocations, the outcome, and whether the
                    \*        entry it replaced held deals
    stored,         \* ghost: per source, the fetch+parse cycle that was stored last
    calls,          \* ghost: per source, its last scrape call, when that call found the
                    \*        entry stale and the clock has not advanced since it began
    open,           \* ghost: per request, its running scrape call: the source, and
                    \*        the clock and the cache when the call was entered
    called,         \* ghost: per request, the scrape calls it has made so far, in
                    \*        order: the source of each and how the call ended
    f_deals,        \* filter harness: the deal list given to filter_deals
    f_prefs,        \* filter harness: the preferences given to filter_deals
    f_out,          \* filter harness: None, or the list filter_deals returned
    p_title,        \* parser harness: the title given to parse_deal
    p_link,         \* parser harness: the link given to parse_deal
    p_out           \* parser harness: None, or what parse_deal returned

vars == <<now, cache, pc, req_prefs, current_time, ret, response, served,
          work, stored, calls, open, called, f_deals, f_prefs, f_out,
          p_title, p_link, p_out>>

serverVars == <<now, cache, pc, req_prefs, current_time, ret, response, served,
                work, stored, calls, open, called>>

harnessVars == <<f_deals, f_prefs, f_out, p_title, p_link, p_out>>

-----------------------------------------------------------------------------
(* Optional values *)

None == <<>>

Some(v) == <<v>>

-----------------------------------------------------------------------------
(* Text *)

UpperCase == <<"A", "B", "C", "D", "E", "F", "G", "H", "I", "J", "K", "L", "M",
               "N", "O", "P", "Q", "R", "S", "T", "U", "V", "W", "X", "Y", "Z">>

LowerCase == <<"a", "b", "c", "d", "e", "f", "g", "h", "i", "j", "k", "l", "m",
               "n", "o", "p", "q", "r", "s", "t", "u", "v", "w", "x", "y", "z">>

Digits == <<"0", "1", "2", "3", "4", "5", "6", "7", "8", "9">>

UpperSet == {UpperCase[i] : i \in 1..26}

AlphaSet == UpperSet \cup {LowerCase[i] : i \in 1..26}

DigitSet == {Digits[i] : i \in 1..10}

IsUpper(c) == c \in UpperSet

IsAlpha(c) == c \in AlphaSet

IsSpace(c) == c \in {" ", "\t", "\n"}

IsDigit(c) == c \in DigitSet

SetMin(S) == CHOOSE x \in S : \A y \in S : x <= y

SetMax(S) == CHOOSE x \in S : \A y \in S : y <= x

\* str.lower()
lower(s) ==
    [i \in 1..Len(s) |->
        IF IsUpper(s[i])
        THEN LowerCase[CHOOSE k \in 1..26 : UpperCase[k] = s[i]]
        ELSE s[i]]

\* str.strip()
strip(s) ==
    LET keep == {i \in 1..Len(s) : ~IsSpace(s[i])}
    IN  IF keep = {} THEN <<>> ELSE SubSeq(s, SetMin(keep), SetMax(keep))

\* sub in s, for two texts
Contains(sub, s) ==
    \E i \in 1..(Len(s) - Len(sub) + 1) : SubSeq(s, i, i + Len(sub) - 1) = sub

\* x in xs, for a list
InList(x, xs) == \E i \in 1..Len(xs) : xs[i] = x

DigitValue(c) == (CHOOSE i \in 1..10 : Digits[i] = c) - 1

RECURSIVE float(_)
\* float() of a text of decimal digits
float(ds) ==
    IF ds = <<>> THEN 0
    ELSE 10 * float(SubSeq(ds, 1, Len(ds) - 1)) + DigitValue(ds[Len(ds)])

-----------------------------------------------------------------------------
(* re.search(r"([A-Za-z\s]+) to ([A-Za-z,\s]+).*?\$(\d+)", title)            *)
(* A backtracking match: the leftmost start; group 1 and group 2 as long    *)
(* as the rest of the pattern still allows; ".*?" as short as possible and  *)
(* never across a newline; the digits as long as they run.                  *)

\* the literal matched whatever its case, here in capitals
LitTo_Capitals == <<" ", "T", "O", " ">>

LitTo == <<" ", "t", "o", " ">>

InGroup1(c) == IsAlpha(c) \/ IsSpace(c)

InGroup2(c) == IsAlpha(c) \/ c = "," \/ IsSpace(c)

\* positions of a "$" followed by a digit that ".*?" can reach from position p
PricePos(t, p) ==
    {m \in p..(Len(t) - 1) :
        /\ t[m] = "$"
        /\ IsDigit(t[m + 1])
        /\ \A x \in p..(m - 1) : t[x] # "\n"}

\* positions right after a possible group 2 that starts at k
Group2Ends(t, k) ==
    {e \in (k + 1)..Len(t) :
        /\ \A x \in k..(e - 1) : InGroup2(t[x])
        /\ PricePos(t, e) # {}}

\* positions right after a possible group 1 that starts at i
Group1Ends(t, i) ==
    {e \in (i + 1)..(Len(t) - 3) :
        /\ SubSeq(t, e, e + 3) = LitTo
        /\ \A x \in i..(e - 1) : InGroup1(t[x])
        /\ Group2Ends(t, e + 4) # {}}

MatchStarts(t) == {i \in 1..Len(t) : Group1Ends(t, i) # {}}

DigitsEnd(t, p) ==
    SetMax({e \in p..Len(t) : \A x \in p..e : IsDigit(t[x])})

\* None, or the three groups of the match
re_search(t) ==
    IF MatchStarts(t) = {} THEN None
    ELSE LET i  == SetMin(MatchStarts(t))
             e1 == SetMax(Group1Ends(t, i))
             k  == e1 + 4
             e2 == SetMax(Group2Ends(t, k))
             m  == SetMin(PricePos(t, e2))
         IN  Some([g1 |-> SubSeq(t, i, e1 - 1),
                   g2 |-> SubSeq(t, k, e2 - 1),
                   g3 |-> SubSeq(t, m + 1, DigitsEnd(t, m + 1))])

TravelDeal(title, link, price, currency, departure, destination) ==
    [title |-> title, link |-> link, price |-> price, currency |-> currency,
     departure |-> departure, destination |-> destination]

\* None, or the deal of a title
parse_deal(title, link) ==
    LET match == re_search(title)
    IN  IF match # None
        THEN Some(TravelDeal(title, link,
                             Some(float(match[1].g3)),
                             Some("USD"),
                             Some(strip(match[1].g1)),
                             Some(strip(match[1].g2))))
        ELSE None

\* a loop that gives up at the first entry that does not parse
parse_entries_StopAtFirst(entries, acc) ==
    LET bad == {i \in 1..Len(entries) :
                   parse_deal(entries[i].title, entries[i].link) = None}
        n   == IF bad = {} THEN Len(entries) ELSE SetMin(bad) - 1
    IN  acc \o [i \in 1..n |-> parse_deal(entries[i].title, entries[i].link)[1]]

RECURSIVE parse_entries(_, _)
\* the loop over feed.entries of a scrape: the deals of the entries that parse
parse_entries(entries, acc) ==
    IF entries = <<>> THEN acc
    ELSE LET deal == parse_deal(Head(entries).title, Head(entries).link)
         IN  parse_entries(Tail(entries),
                           IF deal # None THEN Append(acc, deal[1]) ELSE acc)

-----------------------------------------------------------------------------
(* filter_deals *)

\* Python truth of an Optional[str]: neither None nor ""
TruthyText(o) == o # None /\ o[1] # <<>>

\* Python truth of an Optional[float]: neither None nor 0
TruthyNumber(o) == o # None /\ o[1] # 0

\* line 121: the deal is skipped for its departure
departure_skips(deal, prefs) ==
    /\ TruthyText(deal.departure)
    /\ ~InList(deal.departure[1], prefs.departure_airports)

\* line 123: the deal is skipped for its destination
destination_skips(deal, prefs) ==
    /\ TruthyText(deal.destination)
    /\ ~\E i \in 1..Len(prefs.destination_keywords) :
            Contains(lower(prefs.destination_keywords[i]), lower(deal.destination[1]))

\* line 125: the deal is skipped for its price
price_skips(deal, prefs) ==
    /\ TruthyNumber(prefs.max_price)
    /\ TruthyNumber(deal.price)
    /\ deal.price[1] > prefs.max_price[1]

RECURSIVE filter_loop(_, _, _, _)
\* the for loop of filter_deals from index i on, filtered being the list so far
filter_loop(ds, prefs, i, filtered) ==
    IF i > Len(ds) THEN filtered
    ELSE IF departure_skips(ds[i], prefs) THEN filter_loop(ds, prefs, i + 1, filtered)
    ELSE IF destination_skips(ds[i], prefs) THEN filter_loop(ds, prefs, i + 1, filtered)
    ELSE IF price_skips(ds[i], prefs) THEN filter_loop(ds, prefs, i + 1, filtered)
    ELSE filter_loop(ds, prefs, i + 1, Append(filtered, ds[i]))

filter_deals(ds, prefs) == filter_loop(ds, prefs, 1, <<>>)

-----------------------------------------------------------------------------
(* Titles, links and preference values of the model *)

T_NycParis == <<"N", "Y", "C", " ", "t", "o", " ", "P", "a", "r", "i", "s", " ", "$", "9", "9">>

T_LaxRome == <<"L", "A", "X", " ", "t", "o", " ", "R", "o", "m", "e", " ", "f", "o", "r", " ", "$", "4", "5", "0">>

T_Junk == <<"S", "a", "l", "e">>

T_NoDep == <<" ", " ", "t", "o", " ", "O", "s", "l", "o", " ", "$", "5">>

T_NoDest == <<"J", "F", "K", " ", "t", "o", " ", " ", "$", "0">>

T_JfkParis == <<"J", "F", "K", " ", "t", "o", " ", "P", "a", "r", "i", "s", " ", "$", "0">>

W_JFK == <<"J", "F", "K">>

W_jfk == <<"j", "f", "k">>

W_NYC == <<"N", "Y", "C">>

W_LAX == <<"L", "A", "X">>

W_PARIS == <<"P", "A", "R", "I", "S">>

W_rome == <<"r", "o", "m", "e">>

W_London == <<"L", "o", "n", "d", "o", "n">>

-----------------------------------------------------------------------------
(* Bounds and values of the model *)

MaxRequests == 3

MaxTicks == 2

TickStep == 150

StartTime == 1000

MaxDeals == 2

CACHE_TTL == 300

Requests == {"r1", "r2"}

\* the sources, in the order find_deals scrapes them
Sources == <<"secret_flying", "the_flight_deal">>

SourceSet == {Sources[i] : i \in 1..Len(Sources)}

Entry(title, link) == [title |-> title, link |-> link]

Feed_A == <<Entry(T_NycParis, "a"), Entry(T_Junk, "b"), Entry(T_NoDep, "c")>>

Feed_B == <<Entry(T_NycParis, "a"), Entry(T_LaxRome, "d")>>

Feed_C == <<Entry(T_Junk, "b")>>

\* what feedparser.parse may yield for a source: the entries of its feed
FeedResults(s) ==
    IF s = "secret_flying" THEN {Feed_A, Feed_C} ELSE {Feed_B, Feed_C}

\* parse_entries of each feed, evaluated once
ParsedFeeds == [feed \in {Feed_A, Feed_B, Feed_C} |-> parse_entries(feed, <<>>)]

UserPreferences(departure_airports, destination_keywords, max_price) ==
    [departure_airports |-> departure_airports,
     destination_keywords |-> destination_keywords,
     max_price |-> max_price, currency |-> Some("USD")]

\* the request bodies of the model
RequestPrefs ==
    {UserPreferences(<<W_NYC, W_JFK>>, <<W_PARIS>>, None),
     UserPreferences(<<W_LAX>>, <<W_rome, W_London>>, Some(300))}

-----------------------------------------------------------------------------
(* The server: the cache and the threads serving POST /find-deals *)

CacheEntry(timestamp, data) == [timestamp |-> timestamp, data |-> data]

At(src, line) == [src |-> src, line |-> line]

Idle == At("none", "idle")

NoCall == [src |-> "none"]

NoWork == [fetched |-> 0, parsed |-> 0, outcome |-> "none", over |-> FALSE]

InitServer ==
    /\ now = StartTime
    /\ cache = [s \in SourceSet |-> CacheEntry(0, <<>>)]
    /\ pc = [r \in Requests |-> Idle]
    /\ req_prefs = [r \in Requests |-> None]
    /\ current_time = [r \in Requests |-> 0]
    /\ ret = [r \in Requests |-> [s \in SourceSet |-> <<>>]]
    /\ response = [r \in Requests |-> None]
    /\ served = 0
    /\ work = [r \in Requests |-> NoWork]
    /\ stored = [s \in SourceSet |-> None]
    /\ calls = [s \in SourceSet |-> None]
    /\ open = [r \in Requests |-> NoCall]
    /\ called = [r \in Requests |-> <<>>]

Init ==
    /\ InitServer
    /\ f_deals = <<>>
    /\ f_prefs = None
    /\ f_out = None
    /\ p_title = <<>>
    /\ p_link = ""
    /\ p_out = None

\* where a thread goes when its scrape of source s returns
AfterScrape(s) ==
    IF s = Sources[1] THEN At(Sources[2], "time") ELSE At("none", "respond")

\* the test of line 53 / 76 with an entry of exactly CACHE_TTL seconds still fresh
IsFresh_Inclusive(t, entry) == t - entry.timestamp <= CACHE_TTL

\* line 53 / 76: the test that makes a call a cache hit
IsFresh(t, entry) == t - entry.timestamp < CACHE_TTL

\* ghost: the log after the call of r to s returned value, its fetch having
\* succeeded or not
Logged(r, s, succeeded, value) ==
    [calls EXCEPT ![s] =
        IF open[r].entered = now /\ ~IsFresh(open[r].entered, open[r].pre[s])
        THEN Some([fetched |-> work[r].fetched, succeeded |-> succeeded, ret |-> value])
        ELSE None]

\* ghost: the calls of r, the running one having ended with outcome o
Ended(r, o) == [called EXCEPT ![r] = [@ EXCEPT ![Len(@)].outcome = o]]

\* the clock advances; the calls logged were made at the earlier reading
Tick ==
    /\ now < StartTime + MaxTicks * TickStep
    /\ now' = now + TickStep
    /\ calls' = [s \in SourceSet |-> None]
    /\ UNCHANGED <<cache, pc, req_prefs, current_time, ret, response, served,
                   work, stored, open, called>>
    /\ UNCHANGED harnessVars

\* line 132: a request arrives; its thread is about to call scrape_secret_flying
find_deals_begin(r) ==
    /\ pc[r] = Idle
    /\ served < MaxRequests
    /\ served' = served + 1
    /\ pc' = [pc EXCEPT ![r] = At(Sources[1], "time")]
    /\ UNCHANGED <<now, cache, req_prefs, current_time, ret, response,
                   work, stored, calls, open, called>>
    /\ UNCHANGED harnessVars

\* line 52 / 75: current_time = time.time()
ReadClock(r, s) ==
    /\ pc[r] = At(s, "time")
    /\ current_time' = [current_time EXCEPT ![r] = now]
    /\ pc' = [pc EXCEPT ![r] = At(s, "check")]
    /\ open' = [open EXCEPT ![r] = [src |-> s, entered |-> now, pre |-> cache]]
    /\ work' = [work EXCEPT ![r] = NoWork]
    /\ called' = [called EXCEPT ![r] = Append(@, [src |-> s, outcome |-> "running"])]
    /\ UNCHANGED <<now, cache, req_prefs, ret, response, served, stored, calls>>
    /\ UNCHANGED harnessVars

\* line 53 / 76 and, when the entry is stale, the call of feedparser.parse on
\* line 59 / 82, which is in flight until FetchOk or FetchFail
CheckCache(r, s) ==
    /\ pc[r] = At(s, "check")
    /\ IF IsFresh(current_time[r], cache[s])
       THEN /\ pc' = [pc EXCEPT ![r] = At(s, "hit")]
            /\ UNCHANGED work
       ELSE /\ pc' = [pc EXCEPT ![r] = At(s, "fetch")]
            /\ work' = [work EXCEPT ![r].fetched = @ + 1]
    /\ UNCHANGED <<now, cache, req_prefs, current_time, ret, response, served,
                   stored, calls, open, called>>
    /\ UNCHANGED harnessVars

\* a cache hit that also restarts the entry's TTL
CacheHit_Touch(r, s) ==
    /\ pc[r] = At(s, "hit")
    /\ cache' = [cache EXCEPT ![s].timestamp = now]
    /\ ret' = [ret EXCEPT ![r][s] = cache[s].data]
    /\ pc' = [pc EXCEPT ![r] = AfterScrape(s)]
    /\ calls' = Logged(r, s, FALSE, cache[s].data)
    /\ work' = [work EXCEPT ![r].outcome = "hit"]
    /\ called' = Ended(r, "hit")
    /\ open' = [open EXCEPT ![r] = NoCall]
    /\ UNCHANGED <<now, req_prefs, current_time, response, served, stored>>
    /\ UNCHANGED harnessVars

\* line 55 / 78: return cache[s]["data"]
CacheHit(r, s) ==
    /\ pc[r] = At(s, "hit")
    /\ ret' = [ret EXCEPT ![r][s] = cache[s].data]
    /\ pc' = [pc EXCEPT ![r] = AfterScrape(s)]
    /\ calls' = Logged(r, s, FALSE, cache[s].data)
    /\ work' = [work EXCEPT ![r].outcome = "hit"]
    /\ called' = Ended(r, "hit")
    /\ open' = [open EXCEPT ![r] = NoCall]
    /\ UNCHANGED <<now, cache, req_prefs, current_time, response, served, stored>>
    /\ UNCHANGED harnessVars

\* an entry that extends the deals of the entry it replaces
NewEntry_Merge(t, ds, old) == CacheEntry(t, old.data \o ds)

\* an entry that keeps the timestamp of the entry it replaces
NewEntry_Unstamped(t, ds, old) == CacheEntry(old.timestamp, ds)

\* line 67 / 90: the entry a scrape stores, t being its current_time, ds its
\* deals and old the entry it replaces
NewEntry(t, ds, old) == CacheEntry(t, ds)

\* line 59-69 / 82-92: the feed arrives, every entry goes through parse_deal,
\* cache[s] = {...}, return deals.  Parsing touches nothing shared, so the
\* steps from the arrival of the feed to the assignment are one step.
FetchOk(r, s) ==
    /\ pc[r] = At(s, "fetch")
    /\ \E feed \in FeedResults(s) :
          /\ cache' = [cache EXCEPT ![s] = NewEntry(current_time[r], ParsedFeeds[feed], @)]
          /\ ret' = [ret EXCEPT ![r][s] = ParsedFeeds[feed]]
          /\ work' = [work EXCEPT ![r].parsed = @ + Len(feed),
                                   ![r].outcome = "fetched",
                                   ![r].over = cache[s].data # <<>>]
          /\ stored' = [stored EXCEPT ![s] =
                          Some([entered |-> open[r].entered, feed |-> feed])]
          /\ calls' = Logged(r, s, TRUE, ParsedFeeds[feed])
    /\ called' = Ended(r, "fetched")
    /\ pc' = [pc EXCEPT ![r] = AfterScrape(s)]
    /\ open' = [open EXCEPT ![r] = NoCall]
    /\ UNCHANGED <<now, req_prefs, current_time, response, served>>
    /\ UNCHANGED harnessVars

\* a failed fetch that falls back to the deals of the stale entry
FetchFail_ServeStale(r, s) ==
    /\ pc[r] = At(s, "fetch")
    /\ ret' = [ret EXCEPT ![r][s] = cache[s].data]
    /\ pc' = [pc EXCEPT ![r] = AfterScrape(s)]
    /\ calls' = Logged(r, s, FALSE, cache[s].data)
    /\ work' = [work EXCEPT ![r].outcome = "failed"]
    /\ called' = Ended(r, "failed")
    /\ open' = [open EXCEPT ![r] = NoCall]
    /\ UNCHANGED <<now, cache, req_prefs, current_time, response, served, stored>>
    /\ UNCHANGED harnessVars

\* a failed fetch that is tried once more within the same call
FetchFail_Retry(r, s) ==
    /\ pc[r] = At(s, "fetch")
    /\ IF work[r].fetched < 2
       THEN /\ work' = [work EXCEPT ![r].fetched = @ + 1]
            /\ UNCHANGED <<pc, ret, calls, called, open>>
       ELSE /\ ret' = [ret EXCEPT ![r][s] = <<>>]
            /\ pc' = [pc EXCEPT ![r] = AfterScrape(s)]
            /\ calls' = Logged(r, s, FALSE, <<>>)
            /\ work' = [work EXCEPT ![r].outcome = "failed"]
            /\ called' = Ended(r, "failed")
            /\ open' = [open EXCEPT ![r] = NoCall]
    /\ UNCHANGED <<now, cache, req_prefs, current_time, response, served, stored>>
    /\ UNCHANGED harnessVars

\* a failed fetch whose exception reaches find_deals, which answers 500
FetchFail_Propagate(r, s) ==
    /\ pc[r] = At(s, "fetch")
    /\ response' = [response EXCEPT ![r] = Some([status |-> 500, body |-> <<>>])]
    /\ pc' = [pc EXCEPT ![r] = At("none", "done")]
    /\ calls' = Logged(r, s, FALSE, <<>>)
    /\ work' = [work EXCEPT ![r] = NoWork]
    /\ called' = Ended(r, "failed")
    /\ open' = [open EXCEPT ![r] = NoCall]
    /\ UNCHANGED <<now, cache, req_prefs, current_time, ret, served, stored>>
    /\ UNCHANGED harnessVars

\* line 70-72 / 93-95: the fetch or the loop raises; log, return []
FetchFail(r, s) ==
    /\ pc[r] = At(s, "fetch")
    /\ ret' = [ret EXCEPT ![r][s] = <<>>]
    /\ pc' = [pc EXCEPT ![r] = AfterScrape(s)]
    /\ calls' = Logged(r, s, FALSE, <<>>)
    /\ work' = [work EXCEPT ![r].outcome = "failed"]
    /\ called' = Ended(r, "failed")
    /\ open' = [open EXCEPT ![r] = NoCall]
    /\ UNCHANGED <<now, cache, req_prefs, current_time, response, served, stored>>
    /\ UNCHANGED harnessVars

Scrape(r, s) ==
    \/ ReadClock(r, s)
    \/ CheckCache(r, s)
    \/ CacheHit(r, s)
    \/ FetchOk(r, s)
    \/ FetchFail(r, s)

scrape_secret_flying(r) == Scrape(r, "secret_flying")

scrape_the_flight_deal(r) == Scrape(r, "the_flight_deal")

\* the merged list with the sources the other way round
all_deals_Reversed(r) == ret[r]["the_flight_deal"] \o ret[r]["secret_flying"]

\* line 135: the merged list
all_deals(r) == ret[r]["secret_flying"] \o ret[r]["the_flight_deal"]

\* a response body that is the merged list as it is
matching_deals_Unfiltered(r, p) == all_deals(r)

\* line 136-141: the body of the 200 response to a request with preferences p
matching_deals(r, p) ==
    IF all_deals(r) = <<>> THEN <<>> ELSE filter_deals(all_deals(r), p)

\* a response whose filtering also narrows the cached lists themselves
find_deals_respond_FiltersInPlace(r) ==
    /\ pc[r] = At("none", "respond")
    /\ \E p \in RequestPrefs :
          /\ req_prefs' = [req_prefs EXCEPT ![r] = Some(p)]
          /\ response' = [response EXCEPT ![r] =
                            Some([status |-> 200, body |-> matching_deals(r, p)])]
          /\ cache' = [s \in SourceSet |->
                         [cache[s] EXCEPT !.data = filter_deals(@, p)]]
    /\ pc' = [pc EXCEPT ![r] = At("none", "done")]
    /\ current_time' = [current_time EXCEPT ![r] = 0]
    /\ work' = [work EXCEPT ![r] = NoWork]
    /\ UNCHANGED <<now, ret, served, stored, calls, open, called>>
    /\ UNCHANGED harnessVars

\* line 135-141: merge, filter, respond.  The
\* preferences of the request body are first used here, so they are drawn here.
find_deals_respond(r) ==
    /\ pc[r] = At("none", "respond")
    /\ \E p \in RequestPrefs :
          /\ req_prefs' = [req_prefs EXCEPT ![r] = Some(p)]
          /\ response' = [response EXCEPT ![r] =
                            Some([status |-> 200, body |-> matching_deals(r, p)])]
    /\ pc' = [pc EXCEPT ![r] = At("none", "done")]
    /\ current_time' = [current_time EXCEPT ![r] = 0]
    /\ work' = [work EXCEPT ![r] = NoWork]
    /\ UNCHANGED <<now, cache, ret, served, stored, calls, open, called>>
    /\ UNCHANGED harnessVars

\* the response is sent and the thread goes back to the pool
find_deals_end(r) ==
    /\ pc[r] = At("none", "done")
    /\ pc' = [pc EXCEPT ![r] = Idle]
    /\ req_prefs' = [req_prefs EXCEPT ![r] = None]
    /\ response' = [response EXCEPT ![r] = None]
    /\ ret' = [ret EXCEPT ![r] = [s \in SourceSet |-> <<>>]]
    /\ called' = [called EXCEPT ![r] = <<>>]
    /\ UNCHANGED <<now, cache, current_time, served, work, stored, calls, open>>
    /\ UNCHANGED harnessVars

Step(r) ==
    \/ find_deals_begin(r)
    \/ scrape_secret_flying(r)
    \/ scrape_the_flight_deal(r)
    \/ find_deals_respond(r)
    \/ find_deals_end(r)

\* requests served by the threads of the pool, in any interleaving
Next == Tick \/ \E r \in Requests : Step(r)

Spec == Init /\ [][Next]_vars

\* one request at a time: a thread steps only while every other thread is idle
SerialNext ==
    \/ Tick
    \/ \E r \in Requests :
          /\ \A q \in Requests \ {r} : pc[q] = Idle
          /\ Step(r)

SpecSerial == Init /\ [][SerialNext]_vars

-----------------------------------------------------------------------------
(* filter_deals on its own: every deal list of up to MaxDeals deals and     *)
(* every preference record of the sets below                                *)

W_Oslo == <<"O", "s", "l", "o">>

\* the deals parse_deal makes of the titles, and deals with absent fields
FilterDealValues ==
    {parse_deal(T_NycParis, "a")[1],
     parse_deal(T_LaxRome, "d")[1],
     parse_deal(T_NoDep, "c")[1],
     parse_deal(T_NoDest, "e")[1],
     parse_deal(T_JfkParis, "f")[1],
     TravelDeal(T_Junk, "g", None, None, None, None),
     TravelDeal(T_Junk, "h", None, None, Some(W_jfk), Some(W_Oslo))}

FilterPrefsValues ==
    {UserPreferences(d, k, m) :
        d \in {<<>>, <<W_JFK>>, <<W_NYC, W_LAX>>},
        k \in {<<>>, <<W_PARIS>>, <<W_rome, W_Oslo>>},
        m \in {None, Some(0), Some(99), Some(300)}}

InitFilter ==
    /\ InitServer
    /\ f_deals \in UNION {[1..n -> FilterDealValues] : n \in 0..MaxDeals}
    /\ f_prefs \in {Some(p) : p \in FilterPrefsValues}
    /\ f_out = None
    /\ p_title = <<>>
    /\ p_link = ""
    /\ p_out = None

\* line 118-129: one call of filter_deals
call_filter_deals ==
    /\ f_prefs # None
    /\ f_out = None
    /\ f_out' = Some(filter_deals(f_deals, f_prefs[1]))
    /\ UNCHANGED <<f_deals, f_prefs, p_title, p_link, p_out>>
    /\ UNCHANGED serverVars

NextFilter == call_filter_deals

SpecFilter == InitFilter /\ [][NextFilter]_vars

-----------------------------------------------------------------------------
(* parse_deal on its own: every title made of one piece of each set below    *)

Txt_Head == {<<>>, <<"#", "1", ":">>}

Txt_Origin == {<<"N", "Y", "C">>, <<" ">>, <<"N", " ", "t", "o", " ", "Y">>}

Txt_To == {<<" ", "t", "o", " ">>, <<" ", "T", "O", " ">>, <<" ", "t", "o">>,
           <<"t", "o", " ">>}

Txt_Dest == {<<"R", "i", "o">>, <<"R", "i", "o", ",", " ", "B", "R">>, <<" ">>}

Txt_Gap == {<<>>, <<"-", " ">>, <<"\n">>, <<"-", "\n">>}

Txt_Price == {<<"$", "5">>, <<"$", "1", "2", "x">>, <<"$", " ", "5">>, <<"$">>,
              <<"5">>, <<"$", "x", "$", "7">>}

ParseTitleValues ==
    {h \o a \o w \o b \o g \o n :
        h \in Txt_Head, a \in Txt_Origin, w \in Txt_To, b \in Txt_Dest,
        g \in Txt_Gap, n \in Txt_Price}

ParseLinkValues == {"a", "b"}

InitParse ==
    /\ InitServer
    /\ f_deals = <<>>
    /\ f_prefs = None
    /\ f_out = None
    /\ p_title \in ParseTitleValues
    /\ p_link \in ParseLinkValues
    /\ p_out = None

\* line 97-116: one call of parse_deal; p_out holds what it returned
call_parse_deal ==
    /\ p_out = None
    /\ p_out' = Some(parse_deal(p_title, p_link))
    /\ UNCHANGED <<f_deals, f_prefs, f_out, p_title, p_link>>
    /\ UNCHANGED serverVars

NextParse == call_parse_deal

SpecParse == InitParse /\ [][NextParse]_vars

-----------------------------------------------------------------------------
(* The scrape calls, one request at a time (SpecSerial) *)

\* the step in which the scrape of s called by r returns
Returning(r, s) == pc[r].src = s /\ pc'[r] = AfterScrape(s)

\* r is back from its scrape of s and has not moved on
Returned(r, s) == pc[r] = AfterScrape(s) /\ work[r].outcome # "none"

\* seconds between the entry of s as the call of r found it and the clock the call read
AgeAtEntry(r, s) == open[r].entered - open[r].pre[s].timestamp

\* C1: a call that finds the entry of its source 300 s old or older and whose
\* fetch (or batch parse) fails leaves the cache as it was when the call was
\* entered and returns the empty list, not the stale deals.
C1_FailedRefreshLeavesCache ==
    [][\A r \in Requests, s \in SourceSet :
          (Returning(r, s) /\ AgeAtEntry(r, s) >= 300 /\ work'[r].outcome = "failed")
             => (cache' = open[r].pre /\ ret'[r][s] = <<>>)]_vars

\* a call failed on an entry that holds deals, and returned none of them
C1_Witness ==
    \E r \in Requests, s \in SourceSet :
        /\ Returned(r, s)
        /\ work[r].outcome = "failed"
        /\ cache[s].data # <<>>
        /\ now - cache[s].timestamp >= 300
        /\ ret[r][s] = <<>>

\* C2: a call that finds the entry of its source less than 300 s old returns
\* the deals of that entry, invokes neither the fetch nor parse_deal, and
\* leaves both entries of the cache as they were.
C2_FreshEntryIsServedUntouched ==
    [][\A r \in Requests, s \in SourceSet :
          (Returning(r, s) /\ AgeAtEntry(r, s) < 300)
             => /\ ret'[r][s] = open[r].pre[s].data
                /\ work'[r].fetched = 0
                /\ work'[r].parsed = 0
                /\ cache' = open[r].pre]_vars

\* a call hit an entry that holds deals and is older than the clock reads
C2_Witness ==
    \E r \in Requests, s \in SourceSet :
        /\ Returned(r, s)
        /\ work[r].outcome = "hit"
        /\ ret[r][s] # <<>>
        /\ ret[r][s] = cache[s].data
        /\ cache[s].timestamp < now

\* the call of r to s is the next call to s after a call that found the entry
\* stale, and the clock has not advanced since that call read it
SecondCall(r, s) == Returning(r, s) /\ calls[s] # None /\ open[r].entered = now

\* the second call is a pure cache hit that returns what the first returned,
\* and the two calls invoked the fetch once in total
OneFetchThenHit(r, s) ==
    /\ calls[s][1].fetched + work'[r].fetched = 1
    /\ work'[r].outcome = "hit"
    /\ work'[r].parsed = 0
    /\ cache' = open[r].pre
    /\ ret'[r][s] = calls[s][1].ret

\* C3 as stated: from a stale or initial entry, two consecutive calls with no
\* time advance invoke the fetch once in total and the second is a pure hit.
C3_TwoCallsOneFetch ==
    [][\A r \in Requests, s \in SourceSet :
          SecondCall(r, s) => OneFetchThenHit(r, s)]_vars

\* C3 as amended: that holds when the fetch of the first call succeeds; when
\* it fails the entry stays stale and the second call invokes the fetch again.
C3_TwoCallsOneFetchIfFirstSucceeds ==
    [][\A r \in Requests, s \in SourceSet :
          SecondCall(r, s) =>
             IF calls[s][1].succeeded
             THEN OneFetchThenHit(r, s)
             ELSE calls[s][1].fetched = 1 /\ work'[r].fetched = 1]_vars

\* a call hit the deals that a refresh stored at this same clock reading
C3_Witness ==
    \E r \in Requests, s \in SourceSet :
        /\ Returned(r, s)
        /\ work[r].outcome = "hit"
        /\ cache[s].timestamp = now
        /\ ret[r][s] # <<>>
        /\ ret[r][s] = cache[s].data

\* C4: a call that finds the entry of its source 300 s old or older invokes
\* the fetch exactly once, and when the fetch succeeds the entry is the clock
\* reading of this call with exactly the deals parsed from the fetched feed,
\* which the call returns.
C4_StaleEntryIsRefreshedOnce ==
    [][\A r \in Requests, s \in SourceSet :
          (Returning(r, s) /\ AgeAtEntry(r, s) >= 300)
             => /\ work'[r].fetched = 1
                /\ work'[r].outcome = "fetched" =>
                      /\ stored'[s] # None
                      /\ stored'[s][1].feed \in FeedResults(s)
                      /\ cache'[s] = CacheEntry(open[r].entered,
                                                ParsedFeeds[stored'[s][1].feed])
                      /\ ret'[r][s] = ParsedFeeds[stored'[s][1].feed]]_vars

\* a call made 300 s or more after the first refresh replaced an entry that held deals
C4_Witness ==
    \E r \in Requests, s \in SourceSet :
        /\ Returned(r, s)
        /\ work[r].outcome = "fetched"
        /\ work[r].over
        /\ cache[s].timestamp >= StartTime + 300
        /\ ret[r][s] = cache[s].data

-----------------------------------------------------------------------------
(* The requests, one at a time (SpecSerial) *)

\* the step in which find_deals merges, filters and responds for request r
Responding(r) == pc[r] = At("none", "respond") /\ pc'[r] = At("none", "done")

\* the sources of the scrape calls request r has made, in the order of the calls
CalledSources(r) == [i \in 1..Len(called[r]) |-> called[r][i].src]

\* C11: when a request responds it has called the scrape of each source
\* exactly once, secret_flying before the_flight_deal, and its merged list is
\* what the secret_flying call returned followed by what the the_flight_deal
\* call returned, every deal of both kept (no deduplication).
C11_EachSourceOnceInOrder ==
    [][\A r \in Requests :
          Responding(r) =>
             /\ CalledSources(r) = <<"secret_flying", "the_flight_deal">>
             /\ all_deals(r) = ret[r]["secret_flying"] \o ret[r]["the_flight_deal"]
             /\ Len(all_deals(r)) = Len(ret[r]["secret_flying"])
                                      + Len(ret[r]["the_flight_deal"])]_vars

\* a request has responded with a deal twice, once from each source
C11_Witness ==
    \E r \in Requests :
        /\ response[r] # None
        /\ CalledSources(r) = <<"secret_flying", "the_flight_deal">>
        /\ \E i \in 1..Len(ret[r]["secret_flying"]),
              j \in 1..Len(ret[r]["the_flight_deal"]) :
                 /\ ret[r]["secret_flying"][i] = ret[r]["the_flight_deal"][j]
                 /\ all_deals(r)[i] = all_deals(r)[Len(ret[r]["secret_flying"]) + j]
        /\ Len(response[r][1].body) = 2
        /\ response[r][1].body[1] = response[r][1].body[2]

\* request r has made a scrape call that ended with outcome o
HasOutcome(r, o) == \E i \in 1..Len(called[r]) : called[r][i].outcome = o

\* C12: a scrape call whose fetch fails changes neither entry of the cache
\* nor what the request got from the other source, the request goes on to its
\* response, and every response sent has status 200, never 500.
C12_FetchFailureStaysInItsCall ==
    [][\A r \in Requests :
          /\ response'[r] # None => response'[r][1].status = 200
          /\ \A s \in SourceSet :
                (Returning(r, s) /\ work'[r].outcome = "failed") =>
                   /\ cache' = cache
                   /\ \A o \in SourceSet \ {s} : ret'[r][o] = ret[r][o]
                   /\ response'[r] = None
          /\ (Responding(r) /\ HasOutcome(r, "failed")) =>
                \E p \in RequestPrefs :
                   response'[r] = Some([status |-> 200, body |-> matching_deals(r, p)])]_vars

\* a request, not the first, one source of which failed while the other was
\* fetched, has answered 200 with deals of the other source
C12_Witness ==
    \E r \in Requests :
        /\ served >= 2
        /\ response[r] # None
        /\ response[r][1].status = 200
        /\ response[r][1].body # <<>>
        /\ HasOutcome(r, "failed")
        /\ HasOutcome(r, "fetched")

\* C13: a scrape call invokes the fetch at most once, also when the fetch
\* fails, and a request makes at most one call per source; a failed call leaves
\* the entry as stale as it found it, so that the next request's call to that
\* source, for which the TTL has lapsed, invokes the fetch again.
C13_NoRetryWithinARequest ==
    [][\A r \in Requests :
          /\ work'[r].fetched <= 1
          /\ Len(called'[r]) <= Len(Sources)
          /\ \A i \in 1..Len(called'[r]) : called'[r][i].src = Sources[i]
          /\ \A s \in SourceSet :
                /\ (Returning(r, s) /\ work'[r].outcome = "failed") =>
                      /\ work'[r].fetched = 1
                      /\ ~IsFresh(open[r].entered, cache'[s])
                /\ (SecondCall(r, s) /\ ~calls[s][1].succeeded) =>
                      /\ calls[s][1].fetched = 1
                      /\ work'[r].fetched = 1]_vars

\* the call of a later request fetches a source again right after the call
\* of an earlier request failed to fetch it
C13_Witness ==
    \E r \in Requests, s \in SourceSet :
        /\ served >= 2
        /\ pc[r] = At(s, "fetch")
        /\ work[r].fetched = 1
        /\ calls[s] # None
        /\ ~calls[s][1].succeeded
        /\ calls[s][1].fetched = 1
        /\ calls[s][1].ret = <<>>

\* C14: the response of a request is 200 with, as its body, filter_deals of
\* the secret_flying list followed by the the_flight_deal list under the
\* preferences of the request; when both lists are empty the body is empty.
C14_ResponseIsFilteredMerge ==
    [][\A r \in Requests :
          Responding(r) =>
             LET merged == ret[r]["secret_flying"] \o ret[r]["the_flight_deal"]
             IN  /\ req_prefs'[r] # None
                 /\ response'[r] # None
                 /\ response'[r][1].status = 200
                 /\ response'[r][1].body = filter_deals(merged, req_prefs'[r][1])
                 /\ merged = <<>> => response'[r][1].body = <<>>]_vars

\* a request has answered with some, not all, of the deals of its merged list
C14_Witness ==
    \E r \in Requests :
        /\ response[r] # None
        /\ response[r][1].status = 200
        /\ response[r][1].body # <<>>
        /\ Len(response[r][1].body) < Len(all_deals(r))
        /\ response[r][1].body = filter_deals(all_deals(r), req_prefs[r][1])

-----------------------------------------------------------------------------
(* The cache under concurrent requests (Spec) *)

\* C5: in every reachable state each entry of the cache is the initial entry
\* or the clock reading and the parsed deals of one and the same completed
\* fetch+parse cycle, the one stored last.
C5_EntryIsOneCycle ==
    \A s \in SourceSet :
        cache[s] = IF stored[s] = None
                   THEN CacheEntry(0, <<>>)
                   ELSE CacheEntry(stored[s][1].entered, ParsedFeeds[stored[s][1].feed])

\* one request has stored its cycle while another still fetches the same source
C5_Witness ==
    \E s \in SourceSet, r \in Requests :
        /\ stored[s] # None
        /\ cache[s].data # <<>>
        /\ pc[r] = At(s, "fetch")

\* parse_deal of each entry of the feeds, evaluated once
ParsedEntry ==
    [e \in {Feed_A[i] : i \in 1..Len(Feed_A)} \cup {Feed_B[i] : i \in 1..Len(Feed_B)}
            \cup {Feed_C[i] : i \in 1..Len(Feed_C)} |-> parse_deal(e.title, e.link)]

\* the deals of the entries of a feed that parse, in feed order
DealsOf(feed) ==
    LET Parses(e) == ParsedEntry[e] # None
        kept == SelectSeq(feed, Parses)
    IN  [i \in 1..Len(kept) |-> ParsedEntry[kept[i]][1]]

\* C17: once a refresh of a source has succeeded, the data of its entry is
\* the parse_deal results of the entries of the fetched feed that parse, in
\* feed order, and every cached deal has a price, a departure and a
\* destination, and currency "USD".
C17_DataIsParsedFeed ==
    \A s \in SourceSet :
        /\ stored[s] # None => cache[s].data = DealsOf(stored[s][1].feed)
        /\ \A i \in 1..Len(cache[s].data) :
              /\ cache[s].data[i].price # None
              /\ cache[s].data[i].departure # None
              /\ cache[s].data[i].destination # None
              /\ cache[s].data[i].currency = Some("USD")

\* a feed with an entry that does not parse between two that do was stored
\* as the two deals
C17_Witness ==
    \E s \in SourceSet :
        /\ stored[s] # None
        /\ stored[s][1].feed = Feed_A
        /\ Len(cache[s].data) = 2
        /\ cache[s].data[1].title = T_NycParis
        /\ cache[s].data[2].title = T_NoDep

\* the requests whose fetch of source s is in flight
InFlight(s) == {r \in Requests : pc[r] = At(s, "fetch")}

\* C6: at most one fetch of a source is in flight at any time.
C6_OneFetchInFlight == \A s \in SourceSet : Cardinality(InFlight(s)) <= 1

\* C18: the timestamp of a cache entry never decreases, whatever the
\* interleaving of the requests.
C18_TimestampNeverDecreases ==
    [][\A s \in SourceSet : cache'[s].timestamp >= cache[s].timestamp]_vars

\* C19: what a scrape call returns is the deals of the feed it fetched
\* itself, or the data of an entry less than 300 s old by the clock the call
\* read, or the empty list; data of an entry 300 s old or older is not returned.
C19_ReturnedDataIsFresh ==
    [][\A r \in Requests, s \in SourceSet :
          Returning(r, s) =>
             \/ ret'[r][s] = <<>>
             \/ /\ work'[r].outcome = "fetched"
                /\ stored'[s] # None
                /\ stored'[s][1].entered = open[r].entered
                /\ ret'[r][s] = ParsedFeeds[stored'[s][1].feed]
             \/ /\ work'[r].outcome = "hit"
                /\ ret'[r][s] = cache[s].data
                /\ open[r].entered - cache[s].timestamp < 300]_vars

\* C20: the cache always has exactly the keys secret_flying and
\* the_flight_deal; a step of a scrape call of one source, however the call
\* ends, leaves the entry of the other source as it was; and the step that
\* filters and responds leaves both entries as they were.
C20_OtherEntryIsUntouched ==
    /\ [](DOMAIN cache = {"secret_flying", "the_flight_deal"})
    /\ [][\A r \in Requests :
             pc'[r] # pc[r] =>
                /\ \A s \in SourceSet :
                      pc[r].src = s =>
                         \A o \in SourceSet \ {s} : cache'[o] = cache[o]
                /\ pc[r].src = "none" => cache' = cache]_vars

\* a call has just refreshed the_flight_deal while the secret_flying entry,
\* refreshed at an earlier clock reading, still holds its deals
C20_Witness ==
    \E r \in Requests :
        /\ Returned(r, "the_flight_deal")
        /\ work[r].outcome = "fetched"
        /\ cache["the_flight_deal"].timestamp = now
        /\ cache["secret_flying"].data # <<>>
        /\ stored["secret_flying"] # None
        /\ cache["secret_flying"].timestamp < now

-----------------------------------------------------------------------------
(* filter_deals (SpecFilter) *)

\* the departure predicate as the claims state it
DeparturePasses(deal, prefs) ==
    deal.departure = None \/ InList(deal.departure[1], prefs.departure_airports)

\* the destination predicate as the claims state it
DestinationPasses(deal, prefs) ==
    \/ deal.destination = None
    \/ \E i \in 1..Len(prefs.destination_keywords) :
          Contains(lower(prefs.destination_keywords[i]), lower(deal.destination[1]))

\* the price predicate as the claims state it
PricePasses(deal, prefs) ==
    \/ prefs.max_price = None
    \/ deal.price = None
    \/ deal.price[1] <= prefs.max_price[1]

\* the order-preserving subsequence of the deals that none of the three tests
\* of lines 121-126 skips
Unskipped(ds, prefs) ==
    LET Kept(d) == /\ ~departure_skips(d, prefs)
                   /\ ~destination_skips(d, prefs)
                   /\ ~price_skips(d, prefs)
    IN  SelectSeq(ds, Kept)

\* filter_deals returns the order-preserving subsequence of the deals that
\* none of the tests of lines 121-126 skips (the part of C7 the code keeps)
FilterKeepsUnskippedInOrder ==
    f_out # None => f_out[1] = Unskipped(f_deals, f_prefs[1])

\* C7: filter_deals returns exactly the order-preserving subsequence of the
\* deals for which the departure, destination and price predicates all pass.
C7_FilterIsPassingSubsequence ==
    f_out # None =>
       LET Passes(d) == /\ DeparturePasses(d, f_prefs[1])
                        /\ DestinationPasses(d, f_prefs[1])
                        /\ PricePasses(d, f_prefs[1])
       IN  f_out[1] = SelectSeq(f_deals, Passes)

\* C8: a returned deal whose departure is present, the empty text included,
\* has it in departure_airports; a deal whose departure is absent is not
\* skipped for its departure.
C8_PresentDepartureIsListed ==
    f_out # None =>
       /\ \A i \in 1..Len(f_out[1]) : DeparturePasses(f_out[1][i], f_prefs[1])
       /\ \A i \in 1..Len(f_deals) :
             f_deals[i].departure = None => ~departure_skips(f_deals[i], f_prefs[1])

\* C9: a returned deal whose destination is present contains a keyword, case
\* ignored; a deal whose destination is absent is not skipped for it.
C9_PresentDestinationHasKeyword ==
    f_out # None =>
       /\ \A i \in 1..Len(f_out[1]) : DestinationPasses(f_out[1][i], f_prefs[1])
       /\ \A i \in 1..Len(f_deals) :
             f_deals[i].destination = None => ~destination_skips(f_deals[i], f_prefs[1])

\* C10: a returned deal with a price, when max_price is set, costs at most
\* max_price; a deal is not skipped for its price when either is absent.
C10_PricedDealIsWithinMax ==
    f_out # None =>
       /\ \A i \in 1..Len(f_out[1]) : PricePasses(f_out[1][i], f_prefs[1])
       /\ \A i \in 1..Len(f_deals) :
             (f_deals[i].price = None \/ f_prefs[1].max_price = None)
                => ~price_skips(f_deals[i], f_prefs[1])

-----------------------------------------------------------------------------
(* parse_deal (SpecParse) *)

\* the literal the shape of a title has between origin and destination
ToWord == <<" ", "t", "o", " ">>

\* positions of a " to " in the title
ToPos(t) == {e \in 1..(Len(t) - 3) : SubSeq(t, e, e + 3) = ToWord}

\* positions of a "$" followed by a digit
DollarPos(t) == {m \in 1..(Len(t) - 1) : t[m] = "$" /\ IsDigit(t[m + 1])}

\* the digits that follow position m
DigitRun(t, m) ==
    SubSeq(t, m + 1, SetMax({e \in m..Len(t) : \A x \in (m + 1)..e : IsDigit(t[x])}))

\* the ways to read a title as "<A> to <B> ... $<N>": A is t[i..e1-1], letters
\* and spaces; " to " is at e1; B is t[e1+4..e2-1], letters, commas and spaces;
\* "$<N>" is at m, after B
Splits(t) ==
    {sp \in (1..Len(t)) \X ToPos(t) \X (1..Len(t)) \X DollarPos(t) :
        /\ sp[1] < sp[2]
        /\ sp[2] + 4 < sp[3]
        /\ sp[3] <= sp[4]
        /\ \A x \in sp[1]..(sp[2] - 1) : IsAlpha(t[x]) \/ IsSpace(t[x])
        /\ \A x \in (sp[2] + 4)..(sp[3] - 1) :
              IsAlpha(t[x]) \/ t[x] = "," \/ IsSpace(t[x])}

\* the deal is the one the reading sp of the title gives: B as long as it can
\* be, the price the first "$<digits>" after B
ReadAs(deal, t, sp) ==
    /\ ~(IsAlpha(t[sp[3]]) \/ t[sp[3]] = "," \/ IsSpace(t[sp[3]]))
    /\ sp[4] = SetMin({m \in DollarPos(t) : m >= sp[3]})
    /\ deal.departure = Some(strip(SubSeq(t, sp[1], sp[2] - 1)))
    /\ deal.destination = Some(strip(SubSeq(t, sp[2] + 4, sp[3] - 1)))
    /\ deal.price = Some(float(DigitRun(t, sp[4])))

\* what C15 asks of the call for a title of the shape
ParsedAsShaped ==
    /\ p_out[1] # None
    /\ p_out[1][1].title = p_title
    /\ p_out[1][1].link = p_link
    /\ p_out[1][1].currency = Some("USD")
    /\ \E sp \in Splits(p_title) : ReadAs(p_out[1][1], p_title, sp)

\* C15: for every title of the shape "<A> to <B> ... $<N>", parse_deal returns
\* a deal with the title and the link given, departure A stripped, destination
\* B stripped, B as long as it can be, price N of the first "$<digits>" after
\* B, and currency "USD".
C15_ShapedTitleIsParsed ==
    (p_out # None /\ Splits(p_title) # {}) => ParsedAsShaped

\* the same for the titles of the shape that hold no line break (the part of
\* C15 the code keeps)
ShapedOneLineTitleIsParsed ==
    (p_out # None /\ Splits(p_title) # {} /\ ~InList("\n", p_title)) => ParsedAsShaped

\* the title holds a lowercase " to " and, somewhere after it, "$" and a digit
HasToThenPrice(t) == \E e \in ToPos(t), m \in DollarPos(t) : m >= e + 4

\* C16: for a title that does not hold the lowercase " to " followed later by
\* "$" and digits, parse_deal returns None; and for every title the call
\* returns, with None or with a deal of that title and link.
C16_UnshapedTitleIsAbsent ==
    p_out # None =>
       /\ ~HasToThenPrice(p_title) => p_out[1] = None
       /\ \/ p_out[1] = None
          \/ /\ Len(p_out[1]) = 1
             /\ p_out[1][1].title = p_title
             /\ p_out[1][1].link = p_link

\* parse_deal returned None for a title with " TO " in capitals and a price
C16_Witness ==
    /\ p_out # None
    /\ p_out[1] = None
    /\ Contains(<<" ", "T", "O", " ">>, p_title)
    /\ ToPos(p_title) = {}
    /\ DollarPos(p_title) # {}

====
